---- MODULE Spec2Model ----
(***************************************************************************)
(* Model of src/dify_workflow/collaboration.py: the operation log and its  *)
(* transform (OTEngine), the collaboration room, the per-connection client *)
(* and the room registry with idle eviction (CollaborationManager).        *)
(*                                                                         *)
(* Python objects that can be reached through more than one reference are  *)
(* kept in heaps and named by their index: Operation objects live in the   *)
(* engine's objs heap (the log and the transform cache hold references),   *)
(* CollaborationRoom objects live in robjs (the registry and the clients   *)
(* hold references).  A reference of 0 is "no object".                     *)
(*                                                                         *)
(* Data the code only copies is kept to what tells two copies apart:       *)
(* payload values and uuid4 ids are fresh tokens drawn from ntok, user     *)
(* names are left out, and a color is its index in USER_COLORS.  The       *)
(* clients that handle payloads in Spec are the current members of the     *)
(* registered rooms.                                                       *)
(*                                                                         *)
(* Specifications: Spec drives the module's CollaborationManager, where    *)
(* operations are built by handle_operation with the server clock as       *)
(* timestamp; SpecOT drives one CollaborationRoom through apply_operation  *)
(* and its engine's transform with caller-built operations; SpecRoom       *)
(* drives one room through join, leave and the payload handlers of its     *)
(* members' clients, whose transport callbacks may raise; SpecChat fills   *)
(* one room's chat history past its cap; SpecRace runs join_room from      *)
(* preemptive threads, get_or_create_room one statement at a time;         *)
(* SpecColor lets more users than USER_COLORS has entries come and go in   *)
(* one room; SpecJanitor runs the idle-room pass over rooms whose clients' *)
(* callbacks may raise; SpecStale lets a connection keep its client after  *)
(* the user left the room; SpecOps feeds one room operation payloads whose *)
(* ids may repeat; SpecApply runs apply_operation from two preemptive      *)
(* threads, one statement at a time.                                       *)
(***************************************************************************)
EXTENDS Integers, Sequences, FiniteSets, TLC

\* ---------------------------------------------------------------- bounds
MaxUser == 2          \* user ids are 1..MaxUser
MaxWorkflow == 2      \* workflow (document) ids are 1..MaxWorkflow
MaxId == 2            \* operation ids supplied by callers are 1..MaxId
MaxPath == 2          \* paths are 1..MaxPath
MaxStamp == 2         \* caller-supplied timestamps are 1..MaxStamp
MaxOps == 3           \* calls made on a directly constructed room
MaxCalls == 1         \* payloads handled by the clients of the manager's rooms
MaxTime == 1          \* the clock runs 0..MaxTime
MaxRooms == 2         \* room objects ever constructed by the manager
MaxRoomCalls == 2     \* payloads handled by the clients of a room joined directly
MaxChat == 150        \* chat messages added to one room
MaxPayloads == 3      \* operation payloads handled in the room of SpecOps
MaxColorUser == 9     \* user ids of the room that runs out of colors are 1..MaxColorUser
MaxColorLeaves == 2   \* leaves and re-joins made in that room

Users == 1..MaxUser
ColorUsers == 1..MaxColorUser
AllUsers == Users \cup ColorUsers
Workflows == 1..MaxWorkflow
Ids == 1..MaxId
Paths == 1..MaxPath
Stamps == 1..MaxStamp
Thresholds == {0, 1}  \* max_idle_seconds passed to a janitor pass
Coords == {0, 1}      \* cursor x positions sent by clients
Handlers == {"ok", "raises"}   \* transport callbacks given to on_message
PayloadTypes == {"update", "bogus"}   \* type tags of inbound payloads

\* ------------------------------------------------------ program constants
NumColors == 8        \* len(CollaborationClient.USER_COLORS)
ChatCap == 100        \* "Keep only last 100 messages"

VARIABLES
  robjs,        \* heap of CollaborationRoom objects
  rooms,        \* CollaborationManager.rooms, in insertion order
  user_rooms,   \* CollaborationManager.user_rooms: user id -> room id or NoRoom
  now,          \* time.time()
  ntok,         \* source of fresh tokens (uuid4, payload values), counts calls
  sent,         \* messages handed to client.send by the last call, in order
  last,         \* the last call and what it was given
  callers       \* what the module's callers hold: a thread's position and
                \* locals, the client a connection got

vars == <<robjs, rooms, user_rooms, now, ntok, sent, last, callers>>

NoRoom == <<>>
NoCursor == [user_id |-> 0]

\* ------------------------------------------------------------ small helpers
Range(seq) == {seq[i] : i \in 1..Len(seq)}

\* ------------------------------------------------------------- Operation
OperationType == {"insert", "delete", "update", "move", "connect", "disconnect"}

Operation(id, type, path, value, old_value, timestamp, user_id, revision) ==
  [id |-> id, type |-> type, path |-> path, value |-> value,
   old_value |-> old_value, timestamp |-> timestamp, user_id |-> user_id,
   revision |-> revision]

\* no operation: the op slot of a call that built none
NoOp == Operation(0, "update", 0, 0, 0, 0, 0, 0)

\* -------------------------------------------------------------- OTEngine
\* OTEngine.__init__; objs is the heap of the Operation objects the engine
\* refers to, operations and _transform_cache hold indices into it.
OTEngine ==
  [objs |-> <<>>, operations |-> <<>>, revision |-> 0,
   cache |-> [k \in {} |-> 0]]

\* d[key] = value on a dict
DictSet(d, key, value) ==
  [k \in DOMAIN d \cup {key} |-> IF k = key THEN value ELSE d[k]]

\* An operation in the hands of a caller: ref = 0 is an object only the
\* caller holds (contents rec), ref > 0 is the engine object objs[ref].
Held(rec) == [ref |-> 0, rec |-> rec]
Stored(ref) == [ref |-> ref, rec |-> <<>>]
Deref(eng, h) == IF h.ref = 0 THEN h.rec ELSE eng.objs[h.ref]

\* transform without the cache lookup: every call computes and stores anew
transform_uncached(eng, h1, h2) ==
  LET op1 == Deref(eng, h1)
      op2 == Deref(eng, h2)
      cache_key == <<op1.id, op2.id>>
      copy == Operation(op1.id, op1.type, op1.path, op1.value, op1.old_value,
                        op1.timestamp, op1.user_id, op1.revision)
      transformed ==
        IF op1.path = op2.path
        THEN IF op1.timestamp < op2.timestamp
             THEN copy
             ELSE [copy EXCEPT !.value = op2.value]
        ELSE copy
      ref == Len(eng.objs) + 1
  IN [eng |-> [eng EXCEPT !.objs = Append(@, transformed),
                          !.cache = DictSet(@, cache_key, ref)],
      res |-> Stored(ref)]

\* OTEngine.transform(op1, op2): the engine afterwards and the returned object
transform(eng, h1, h2) ==
  LET op1 == Deref(eng, h1)
      op2 == Deref(eng, h2)
      cache_key == <<op1.id, op2.id>>
  IN IF cache_key \in DOMAIN eng.cache
     THEN [eng |-> eng, res |-> Stored(eng.cache[cache_key])]
     ELSE LET copy == Operation(op1.id, op1.type, op1.path, op1.value,
                                op1.old_value, op1.timestamp, op1.user_id,
                                op1.revision)
              transformed ==
                IF op1.path = op2.path
                THEN IF op1.timestamp < op2.timestamp
                     THEN copy
                     ELSE [copy EXCEPT !.value = op2.value]
                ELSE copy
              ref == Len(eng.objs) + 1
          IN [eng |-> [eng EXCEPT !.objs = Append(@, transformed),
                                  !.cache = DictSet(@, cache_key, ref)],
              res |-> Stored(ref)]

RECURSIVE ops_since(_, _, _)
\* [op for op in operations if op.revision > revision], as references
ops_since(objs, operations, revision) ==
  IF operations = <<>> THEN <<>>
  ELSE (IF objs[Head(operations)].revision > revision
        THEN <<Head(operations)>> ELSE <<>>)
       \o ops_since(objs, Tail(operations), revision)

\* OTEngine.get_operations_since(revision): references, in log order
get_operations_since(eng, revision) ==
  ops_since(eng.objs, eng.operations, revision)

\* apply_operation that stamps and logs the operation without advancing the
\* counter
engine_apply_operation_stale(eng, h) ==
  LET ref == IF h.ref = 0 THEN Len(eng.objs) + 1 ELSE h.ref
      objs == IF h.ref = 0
              THEN Append(eng.objs, [h.rec EXCEPT !.revision = eng.revision])
              ELSE [eng.objs EXCEPT ![ref].revision = eng.revision]
  IN [eng |-> [eng EXCEPT !.objs = objs, !.operations = Append(@, ref)],
      res |-> Stored(ref)]

\* OTEngine.apply_operation(op): the engine afterwards and the logged object
engine_apply_operation(eng, h) ==
  LET revision == eng.revision + 1
      ref == IF h.ref = 0 THEN Len(eng.objs) + 1 ELSE h.ref
      objs == IF h.ref = 0
              THEN Append(eng.objs, [h.rec EXCEPT !.revision = revision])
              ELSE [eng.objs EXCEPT ![ref].revision = revision]
  IN [eng |-> [eng EXCEPT !.revision = revision, !.objs = objs,
                          !.operations = Append(@, ref)],
      res |-> Stored(ref)]

RECURSIVE fold_transform(_, _, _, _)
\* the loop of CollaborationRoom.apply_operation over the operations since
\* the op's base revision (the list is built once, before the loop)
fold_transform(eng, h, existing, user_id) ==
  IF existing = <<>> THEN [eng |-> eng, res |-> h]
  ELSE IF eng.objs[Head(existing)].user_id # user_id
       THEN LET t == transform(eng, h, Stored(Head(existing)))
            IN fold_transform(t.eng, t.res, Tail(existing), user_id)
       ELSE fold_transform(eng, h, Tail(existing), user_id)

\* ------------------------------------------------------ CollaborationRoom
\* CollaborationRoom.__init__ at clock t.  users is the dict of clients in
\* insertion order, each client [user_id, user_color].
CollaborationRoom(room_id, workflow_id, t) ==
  [room_id |-> room_id, workflow_id |-> workflow_id, ot_engine |-> OTEngine,
   users |-> <<>>, cursors |-> [u \in AllUsers |-> NoCursor],
   chat_history |-> <<>>, created_at |-> t, last_activity |-> t]

Members(room) == {room.users[i].user_id : i \in 1..Len(room.users)}

\* CollaborationClient.send(message): what becomes of a message handed to the
\* client.  Without a handler nothing happens; otherwise the handler runs and
\* either returns or raises.
send(client) ==
  IF client.handler = "none" THEN "dropped"
  ELSE IF client.handler = "raises" THEN "raised" ELSE "delivered"

RECURSIVE send_each_aborts(_, _, _, _)
\* the loop without the try/except: the first send that raises ends it
send_each_aborts(members, type, data, exclude) ==
  IF members = <<>> THEN <<>>
  ELSE IF Head(members).user_id = exclude
       THEN send_each_aborts(Tail(members), type, data, exclude)
       ELSE <<[to |-> Head(members).user_id, type |-> type, data |-> data,
               outcome |-> send(Head(members))]>>
            \o (IF send(Head(members)) = "raised" THEN <<>>
                ELSE send_each_aborts(Tail(members), type, data, exclude))

RECURSIVE send_each(_, _, _, _)
\* the loop of _broadcast over the clients, in dict order: each send sits in
\* its own try/except, so the loop goes on after a send that raised
send_each(members, type, data, exclude) ==
  IF members = <<>> THEN <<>>
  ELSE (IF Head(members).user_id # exclude
        THEN <<[to |-> Head(members).user_id, type |-> type, data |-> data,
                outcome |-> send(Head(members))]>>
        ELSE <<>>)
       \o send_each(Tail(members), type, data, exclude)

\* CollaborationRoom._broadcast(message, exclude): the messages handed to
\* client.send; exclude = 0 is "no exclude".  A send that raises is swallowed.
broadcast(room, type, data, exclude) ==
  send_each(room.users, type, data, exclude)

\* apply_operation that broadcasts the operation as it came in, and not to
\* the originator
room_apply_operation_raw(room, rec, user_id, t) ==
  LET op == [rec EXCEPT !.user_id = user_id]
      existing == get_operations_since(room.ot_engine, op.revision)
      folded == fold_transform(room.ot_engine, Held(op), existing, user_id)
      applied == engine_apply_operation(folded.eng, folded.res)
  IN [room |-> [room EXCEPT !.ot_engine = applied.eng, !.last_activity = t],
      sent |-> broadcast(room, "operation", op, user_id),
      res |-> applied.res.ref]

\* CollaborationRoom.apply_operation(op, user_id) at clock t
room_apply_operation(room, rec, user_id, t) ==
  LET op == [rec EXCEPT !.user_id = user_id]
      existing == get_operations_since(room.ot_engine, op.revision)
      folded == fold_transform(room.ot_engine, Held(op), existing, user_id)
      applied == engine_apply_operation(folded.eng, folded.res)
      applied_op == applied.eng.objs[applied.res.ref]
  IN [room |-> [room EXCEPT !.ot_engine = applied.eng, !.last_activity = t],
      sent |-> broadcast(room, "operation", applied_op, 0),
      res |-> applied.res.ref]

RECURSIVE without_user(_, _)
\* del users[user_id] on the dict of clients
without_user(users, user_id) ==
  IF users = <<>> THEN <<>>
  ELSE (IF Head(users).user_id = user_id THEN <<>> ELSE <<Head(users)>>)
       \o without_user(Tail(users), user_id)

\* join without the membership test: the offered client replaces the stored one
join_overwrites(room, client) ==
  LET joined == [room EXCEPT !.users =
                   Append(without_user(@, client.user_id), client)]
  IN [room |-> joined,
      sent |-> broadcast(joined, "user_joined", client, client.user_id),
      res |-> TRUE]

\* CollaborationRoom.join(client): the room afterwards, the messages sent
\* (broadcast_user_joined excludes the joiner) and the returned bool
join(room, client) ==
  IF client.user_id \notin Members(room)
  THEN LET joined == [room EXCEPT !.users = Append(@, client)]
       IN [room |-> joined,
           sent |-> broadcast(joined, "user_joined", client, client.user_id),
           res |-> TRUE]
  ELSE [room |-> room, sent |-> <<>>, res |-> FALSE]

\* leave that forgets the cursor of the user who left
leave_keeps_cursor(room, user_id) ==
  IF user_id \in Members(room)
  THEN LET left == [room EXCEPT !.users = without_user(@, user_id)]
       IN [room |-> left,
           sent |-> broadcast(left, "user_left", user_id, 0),
           res |-> TRUE]
  ELSE [room |-> room, sent |-> <<>>, res |-> FALSE]

\* CollaborationRoom.leave(user_id): broadcast_user_left goes to everyone left
leave(room, user_id) ==
  IF user_id \in Members(room)
  THEN LET left == [room EXCEPT !.users = without_user(@, user_id),
                                !.cursors[user_id] = NoCursor]
       IN [room |-> left,
           sent |-> broadcast(left, "user_left", user_id, 0),
           res |-> TRUE]
  ELSE [room |-> room, sent |-> <<>>, res |-> FALSE]

\* update_cursor that also notifies the originator
update_cursor_echo(room, cursor) ==
  LET updated == [room EXCEPT !.cursors[cursor.user_id] = cursor]
  IN [room |-> updated,
      sent |-> broadcast(updated, "cursor_update", cursor, 0)]

\* CollaborationRoom.update_cursor(cursor)
update_cursor(room, cursor) ==
  LET updated == [room EXCEPT !.cursors[cursor.user_id] = cursor]
  IN [room |-> updated,
      sent |-> broadcast(updated, "cursor_update", cursor, cursor.user_id)]

\* the first n elements instead of the last n
FirstN(seq, n) ==
  IF Len(seq) > n THEN SubSeq(seq, 1, n) ELSE seq

\* chat_history[-ChatCap:]
LastN(seq, n) ==
  IF Len(seq) > n THEN SubSeq(seq, Len(seq) - n + 1, Len(seq)) ELSE seq

\* CollaborationRoom.add_chat_message(user_id, user_name, message) at clock t,
\* uuid4 giving id
add_chat_message(room, user_id, message, t, id) ==
  LET chat_msg == [id |-> id, user_id |-> user_id, message |-> message,
                   timestamp |-> t]
      appended == Append(room.chat_history, chat_msg)
      updated == [room EXCEPT !.chat_history =
                    IF Len(appended) > ChatCap THEN LastN(appended, ChatCap)
                    ELSE appended]
  IN [room |-> updated,
      sent |-> broadcast(updated, "chat_message", chat_msg, 0)]

\* the colors are collected from all members but the last one
assign_color_skips(room) ==
  LET used_colors == {room.users[i].user_color : i \in 1..(Len(room.users) - 1)}
      free == {c \in 1..NumColors : c \notin used_colors}
  IN IF free # {} THEN CHOOSE c \in free : \A d \in free : c <= d ELSE 1

\* the last free palette entry instead of the first
assign_color_last(room) ==
  LET used_colors == {room.users[i].user_color : i \in 1..Len(room.users)}
      free == {c \in 1..NumColors : c \notin used_colors}
  IN IF free # {} THEN CHOOSE c \in free : \A d \in free : c >= d ELSE 1

\* ---------------------------------------------------- CollaborationClient
\* CollaborationClient._assign_color(room): colors are indices into
\* USER_COLORS
assign_color(room) ==
  LET used_colors == {room.users[i].user_color : i \in 1..Len(room.users)}
      free == {c \in 1..NumColors : c \notin used_colors}
  IN IF free # {} THEN CHOOSE c \in free : \A d \in free : c <= d ELSE 1

\* CollaborationClient.__init__(user_id, user_name, room); room is a reference
CollaborationClient(user_id, room_ref, room) ==
  [user_id |-> user_id, user_color |-> assign_color(room), room |-> room_ref,
   handler |-> "none"]

\* CollaborationClient.on_message(handler): the transport's callback is "ok"
\* when it returns and "raises" when it throws
on_message(client, handler) == [client EXCEPT !.handler = handler]

\* handle_operation that takes an unknown type tag for "update"
handle_operation_lenient(client, room, data, t, uuid) ==
  LET op == Operation(IF data.id = 0 THEN uuid ELSE data.id,
                      IF data.type \in OperationType THEN data.type
                      ELSE "update",
                      data.path, data.value, data.old_value, t,
                      client.user_id, data.revision)
      r == room_apply_operation(room, op, client.user_id, t)
  IN [room |-> r.room, sent |-> r.sent, res |-> r.res, op |-> op,
      raised |-> FALSE]

\* CollaborationClient.handle_operation(data) at clock t, uuid4 giving uuid.
\* data.id = 0 and data.timestamp = 0 stand for an absent key.  The enum
\* lookup OperationType(data.type) raises ValueError for a value that is no
\* member, before the Operation is built; the Operation takes its timestamp
\* from the clock (the dataclass default), whatever the payload carries.
handle_operation(client, room, data, t, uuid) ==
  IF data.type \notin OperationType
  THEN [room |-> room, sent |-> <<>>, res |-> 0, op |-> NoOp, raised |-> TRUE]
  ELSE LET op == Operation(IF data.id = 0 THEN uuid ELSE data.id, data.type,
                           data.path, data.value, data.old_value, t,
                           client.user_id, data.revision)
           r == room_apply_operation(room, op, client.user_id, t)
       IN [room |-> r.room, sent |-> r.sent, res |-> r.res, op |-> op,
           raised |-> FALSE]

\* CollaborationClient.handle_cursor_update(data) at clock t
handle_cursor_update(client, room, data, t) ==
  update_cursor(room, [user_id |-> client.user_id,
                       user_color |-> client.user_color,
                       node_id |-> data.node_id, x |-> data.x, y |-> data.y,
                       last_update |-> t])

\* CollaborationClient.handle_chat_message(data) at clock t
handle_chat_message(client, room, data, t, uuid) ==
  add_chat_message(room, client.user_id, data.message, t, uuid)

\* ---------------------------------------------------- CollaborationManager
RoomId(workflow_id) == <<"room_", workflow_id>>

\* room_id in self.rooms
Registered(reg, room_id) == \E i \in 1..Len(reg) : reg[i].room_id = room_id

\* self.rooms[room_id], a reference into robjs
RoomRef(reg, room_id) ==
  reg[CHOOSE i \in 1..Len(reg) : reg[i].room_id = room_id].room

RECURSIVE without_room(_, _)
\* del self.rooms[room_id]
without_room(reg, room_id) ==
  IF reg = <<>> THEN <<>>
  ELSE (IF Head(reg).room_id = room_id THEN <<>> ELSE <<Head(reg)>>)
       \o without_room(Tail(reg), room_id)

\* get_or_create_room that builds a new room on every call
get_or_create_room_fresh(heap, reg, workflow_id, t) ==
  LET room_id == RoomId(workflow_id)
  IN [heap |-> Append(heap, CollaborationRoom(room_id, workflow_id, t)),
      reg |-> Append(without_room(reg, room_id),
                     [room_id |-> room_id, room |-> Len(heap) + 1]),
      res |-> Len(heap) + 1]

\* CollaborationManager.get_or_create_room(workflow_id) at clock t: the heap
\* and the registry afterwards and the returned room
get_or_create_room(heap, reg, workflow_id, t) ==
  LET room_id == RoomId(workflow_id)
  IN IF ~Registered(reg, room_id)
     THEN [heap |-> Append(heap, CollaborationRoom(room_id, workflow_id, t)),
           reg |-> Append(reg, [room_id |-> room_id, room |-> Len(heap) + 1]),
           res |-> Len(heap) + 1]
     ELSE [heap |-> heap, reg |-> reg, res |-> RoomRef(reg, room_id)]

\* join_room that forgets "Leave previous room if any"
join_room_stays(heap, reg, ur, workflow_id, user_id, t) ==
  LET got == get_or_create_room(heap, reg, workflow_id, t)
      client == CollaborationClient(user_id, got.res, got.heap[got.res])
      joined == join(got.heap[got.res], client)
  IN [heap |-> [got.heap EXCEPT ![got.res] = joined.room],
      reg |-> got.reg,
      ur |-> [ur EXCEPT ![user_id] = got.heap[got.res].room_id],
      sent |-> joined.sent,
      room |-> got.res,
      client |-> client]

\* CollaborationManager.join_room(workflow_id, user_id, user_name) at clock t
join_room(heap, reg, ur, workflow_id, user_id, t) ==
  LET got == get_or_create_room(heap, reg, workflow_id, t)
      leaving == ur[user_id] # NoRoom /\ Registered(got.reg, ur[user_id])
      old == RoomRef(got.reg, ur[user_id])
      left == leave(got.heap[old], user_id)
      heap1 == IF leaving THEN [got.heap EXCEPT ![old] = left.room]
               ELSE got.heap
      client == CollaborationClient(user_id, got.res, heap1[got.res])
      joined == join(heap1[got.res], client)
  IN [heap |-> [heap1 EXCEPT ![got.res] = joined.room],
      reg |-> got.reg,
      ur |-> [ur EXCEPT ![user_id] = heap1[got.res].room_id],
      sent |-> (IF leaving THEN left.sent ELSE <<>>) \o joined.sent,
      room |-> got.res,
      client |-> client]

\* leave_room that leaves the user's user_rooms entry in place
leave_room_keeps_entry(heap, reg, ur, user_id) ==
  IF ur[user_id] # NoRoom /\ Registered(reg, ur[user_id])
  THEN LET ref == RoomRef(reg, ur[user_id])
           left == leave(heap[ref], user_id)
       IN [heap |-> [heap EXCEPT ![ref] = left.room], ur |-> ur,
           sent |-> left.sent]
  ELSE [heap |-> heap, ur |-> ur, sent |-> <<>>]

\* CollaborationManager.leave_room(user_id)
leave_room(heap, reg, ur, user_id) ==
  IF ur[user_id] # NoRoom
  THEN LET room_id == ur[user_id]
           ref == RoomRef(reg, room_id)
           left == leave(heap[ref], user_id)
       IN IF Registered(reg, room_id)
          THEN [heap |-> [heap EXCEPT ![ref] = left.room],
                ur |-> [ur EXCEPT ![user_id] = NoRoom], sent |-> left.sent]
          ELSE [heap |-> heap, ur |-> [ur EXCEPT ![user_id] = NoRoom],
                sent |-> <<>>]
  ELSE [heap |-> heap, ur |-> ur, sent |-> <<>>]

RECURSIVE idle_rooms_nonstrict(_, _, _, _)
\* the first loop with >= in place of >
idle_rooms_nonstrict(heap, reg, current_time, max_idle_seconds) ==
  IF reg = <<>> THEN <<>>
  ELSE (IF current_time - heap[Head(reg).room].last_activity >= max_idle_seconds
        THEN <<Head(reg).room_id>> ELSE <<>>)
       \o idle_rooms_nonstrict(heap, Tail(reg), current_time, max_idle_seconds)

RECURSIVE idle_rooms(_, _, _, _)
\* the first loop of _cleanup_idle_rooms: rooms_to_remove, in registry order
idle_rooms(heap, reg, current_time, max_idle_seconds) ==
  IF reg = <<>> THEN <<>>
  ELSE (IF current_time - heap[Head(reg).room].last_activity > max_idle_seconds
        THEN <<Head(reg).room_id>> ELSE <<>>)
       \o idle_rooms(heap, Tail(reg), current_time, max_idle_seconds)

RECURSIVE kick_users(_, _, _, _)
\* "Kick all users": the loop over list(room.users.keys())
kick_users(room, ur, user_ids, out) ==
  IF user_ids = <<>> THEN [room |-> room, ur |-> ur, sent |-> out]
  ELSE LET user_id == Head(user_ids)
           left == leave(room, user_id)
       IN kick_users(left.room, [ur EXCEPT ![user_id] = NoRoom],
                     Tail(user_ids), out \o left.sent)

RECURSIVE remove_rooms_aborts(_, _, _, _, _)
\* the second loop ended by the first forced leave that met a raising send
remove_rooms_aborts(heap, reg, ur, rooms_to_remove, out) ==
  IF rooms_to_remove = <<>>
  THEN [heap |-> heap, reg |-> reg, ur |-> ur, sent |-> out]
  ELSE LET room_id == Head(rooms_to_remove)
           ref == RoomRef(reg, room_id)
           keys == [i \in 1..Len(heap[ref].users) |-> heap[ref].users[i].user_id]
           kicked == kick_users(heap[ref], ur, keys, <<>>)
       IN IF \E k \in 1..Len(kicked.sent) : kicked.sent[k].outcome = "raised"
          THEN [heap |-> heap, reg |-> reg, ur |-> ur,
                sent |-> out \o kicked.sent]
          ELSE remove_rooms_aborts([heap EXCEPT ![ref] = kicked.room],
                                   without_room(reg, room_id), kicked.ur,
                                   Tail(rooms_to_remove), out \o kicked.sent)

RECURSIVE remove_rooms(_, _, _, _, _)
\* the second loop of _cleanup_idle_rooms
remove_rooms(heap, reg, ur, rooms_to_remove, out) ==
  IF rooms_to_remove = <<>>
  THEN [heap |-> heap, reg |-> reg, ur |-> ur, sent |-> out]
  ELSE LET room_id == Head(rooms_to_remove)
           ref == RoomRef(reg, room_id)
           keys == [i \in 1..Len(heap[ref].users) |-> heap[ref].users[i].user_id]
           kicked == kick_users(heap[ref], ur, keys, <<>>)
       IN remove_rooms([heap EXCEPT ![ref] = kicked.room],
                       without_room(reg, room_id), kicked.ur,
                       Tail(rooms_to_remove), out \o kicked.sent)

\* _cleanup_idle_rooms that kicks the users but forgets their user_rooms
\* entries
cleanup_keeps_entries(heap, reg, ur, max_idle_seconds, t) ==
  [remove_rooms(heap, reg, ur, idle_rooms(heap, reg, t, max_idle_seconds),
                <<>>) EXCEPT !.ur = ur]

\* CollaborationManager._cleanup_idle_rooms(max_idle_seconds) at clock t
cleanup_idle_rooms(heap, reg, ur, max_idle_seconds, t) ==
  remove_rooms(heap, reg, ur, idle_rooms(heap, reg, t, max_idle_seconds), <<>>)

\* ---------------------------------------------------------- the last call
\* kind: the method called; room, user: the room object and the user it was
\* called for; op: the Operation as the caller built it; b: the op2 of a
\* transform, the type tag of a handle_operation payload; res: the returned
\* Operation object, 1 / 0 for the bool of a join or leave; arg: the
\* remaining argument (workflow id, max_idle_seconds, x, the op1 object of a
\* transform), 1 for a handle_operation that raised; prev: what the call
\* found (the user's user_rooms entry before a join_room, the number of
\* registered rooms before a janitor pass, 1 when the user had a cursor, the
\* timestamp of a handle_operation payload)
Call(kind, room, user, op, b, res, arg, prev) ==
  [kind |-> kind, room |-> room, user |-> user, op |-> op, b |-> b,
   res |-> res, arg |-> arg, prev |-> prev]


NoCall ==
  [kind |-> "init", room |-> 0, user |-> 0, op |-> NoOp, b |-> 0, res |-> 0,
   arg |-> 0, prev |-> 0]

\* ------------------------------------------------------------ the manager
\* the clients that are members of a registered room (the objects join_room
\* returned to their connections), each with its room
Connected ==
  UNION {Range(robjs[rooms[i].room].users) : i \in 1..Len(rooms)}

\* CollaborationManager.__init__ (the module's collaboration_manager)
Init ==
  /\ robjs = <<>>
  /\ rooms = <<>>
  /\ user_rooms = [u \in Users |-> NoRoom]
  /\ now = 0
  /\ ntok = 1
  /\ sent = <<>>
  /\ last = NoCall
  /\ callers = <<>>

\* time passes
Tick ==
  /\ now < MaxTime
  /\ now' = now + 1
  /\ sent' = <<>>
  /\ last' = Call("tick", 0, 0, NoOp, 0, 0, 0, 0)
  /\ UNCHANGED <<robjs, rooms, user_rooms, ntok, callers>>

\* collaboration_manager.join_room(workflow_id, user_id, user_name)
JoinRoom ==
  \E workflow_id \in Workflows, user_id \in Users :
    /\ Registered(rooms, RoomId(workflow_id)) \/ Len(robjs) < MaxRooms
    /\ LET r == join_room(robjs, rooms, user_rooms, workflow_id, user_id, now)
       IN /\ robjs' = r.heap
          /\ rooms' = r.reg
          /\ user_rooms' = r.ur
          /\ sent' = r.sent
          /\ last' = Call("join_room", r.room, user_id, NoOp, 0, 0, workflow_id,
                          user_rooms[user_id])
    /\ UNCHANGED <<now, ntok, callers>>

\* collaboration_manager.leave_room(user_id)
LeaveRoom ==
  \E user_id \in Users :
    /\ LET r == leave_room(robjs, rooms, user_rooms, user_id)
       IN /\ robjs' = r.heap
          /\ user_rooms' = r.ur
          /\ sent' = r.sent
          /\ last' = Call("leave_room", 0, user_id, NoOp, 0, 0, 0,
                          user_rooms[user_id])
    /\ UNCHANGED <<rooms, now, ntok, callers>>

\* one pass of the janitor: _cleanup_idle_rooms(max_idle_seconds)
CleanupIdleRooms ==
  \E max_idle_seconds \in Thresholds :
    /\ LET r == cleanup_idle_rooms(robjs, rooms, user_rooms, max_idle_seconds,
                                   now)
       IN /\ robjs' = r.heap
          /\ rooms' = r.reg
          /\ user_rooms' = r.ur
          /\ sent' = r.sent
          /\ last' = Call("cleanup", 0, 0, NoOp, 0, 0, max_idle_seconds,
                          Len(rooms))
    /\ UNCHANGED <<now, ntok, callers>>

\* client.handle_operation(data) through a client of a registered room, with
\* a payload of a known type and without a timestamp key; id = 0: no id key
HandleOperation ==
  \E c \in Connected, id \in Ids \cup {0}, path \in Paths :
   \E revision \in 0..robjs[c.room].ot_engine.revision :
    /\ ntok <= MaxCalls
    /\ LET data == [id |-> id, type |-> "update", path |-> path,
                    value |-> 2 * ntok, old_value |-> 2 * ntok + 1,
                    revision |-> revision, timestamp |-> 0]
           r == handle_operation(c, robjs[c.room], data, now, <<"uuid", ntok>>)
       IN /\ robjs' = [robjs EXCEPT ![c.room] = r.room]
          /\ sent' = r.sent
          /\ last' = Call("handle_operation", c.room, c.user_id, r.op,
                          data.type, r.res, 0, 0)
    /\ ntok' = ntok + 1
    /\ UNCHANGED <<rooms, user_rooms, now, callers>>

\* client.handle_cursor_update(data)
HandleCursorUpdate ==
  \E c \in Connected, x \in Coords :
    /\ ntok <= MaxCalls
    /\ LET r == handle_cursor_update(c, robjs[c.room],
                                     [node_id |-> 0, x |-> x, y |-> 0], now)
       IN /\ robjs' = [robjs EXCEPT ![c.room] = r.room]
          /\ sent' = r.sent
          /\ last' = Call("handle_cursor_update", c.room, c.user_id, NoOp, 0, 0,
                          x, 0)
    /\ ntok' = ntok + 1
    /\ UNCHANGED <<rooms, user_rooms, now, callers>>

\* client.handle_chat_message(data)
HandleChatMessage ==
  \E c \in Connected :
    /\ ntok <= MaxCalls
    /\ LET r == handle_chat_message(c, robjs[c.room], [message |-> "hi"], now,
                                    <<"uuid", ntok>>)
       IN /\ robjs' = [robjs EXCEPT ![c.room] = r.room]
          /\ sent' = r.sent
          /\ last' = Call("handle_chat_message", c.room, c.user_id, NoOp, 0, 0,
                          0, 0)
    /\ ntok' = ntok + 1
    /\ UNCHANGED <<rooms, user_rooms, now, callers>>

Next ==
  \/ Tick
  \/ JoinRoom
  \/ LeaveRoom
  \/ CleanupIdleRooms
  \/ HandleOperation
  \/ HandleCursorUpdate
  \/ HandleChatMessage

Spec == Init /\ [][Next]_vars

\* ------------------------------------------- a directly constructed room
\* One CollaborationRoom built by its constructor and driven through its
\* public methods with caller-built Operation objects.
InitOT ==
  /\ robjs = <<CollaborationRoom(RoomId(1), 1, 0)>>
  /\ rooms = <<>>
  /\ user_rooms = [u \in Users |-> NoRoom]
  /\ now = 0
  /\ ntok = 1
  /\ sent = <<>>
  /\ last = NoCall
  /\ callers = <<>>

\* room.apply_operation(Operation(...), user_id) on the room
ApplyOperation ==
  /\ ntok <= MaxOps
  /\ \E id \in Ids, type \in {"update", "insert"}, path \in Paths,
        timestamp \in Stamps, user_id \in Users,
        revision \in 0..robjs[1].ot_engine.revision :
       LET op == Operation(id, type, path, 2 * ntok, 2 * ntok + 1, timestamp,
                           0, revision)
           r == room_apply_operation(robjs[1], op, user_id, now)
       IN /\ robjs' = [robjs EXCEPT ![1] = r.room]
          /\ sent' = r.sent
          /\ last' = Call("apply_operation", 1, user_id, op, 0, r.res, 0, 0)
  /\ ntok' = ntok + 1
  /\ UNCHANGED <<rooms, user_rooms, now, callers>>

\* room.ot_engine.transform(a, b) with b an operation of the log and a either
\* a caller-built operation, the caller-built operation of the previous
\* transform call passed again, or an operation of the log; prev is 1 when
\* the call repeats the previous call's arguments
Transform ==
  /\ ntok <= MaxOps
  /\ \E bi \in 1..Len(robjs[1].ot_engine.operations) :
       LET eng == robjs[1].ot_engine
           b == eng.operations[bi]
           Fresh == {Held(Operation(id, "update", path, 2 * ntok, 2 * ntok + 1,
                                    timestamp, user_id, 0)) :
                       id \in Ids, path \in Paths, timestamp \in Stamps,
                       user_id \in Users}
           Again == IF last.kind = "transform" /\ last.arg = 0
                    THEN {Held(last.op)} ELSE {}
           Logged == {Stored(eng.operations[i]) : i \in 1..Len(eng.operations)}
       IN \E a \in Fresh \cup Again \cup Logged :
            LET t == transform(eng, a, Stored(b))
            IN /\ robjs' = [robjs EXCEPT ![1].ot_engine = t.eng]
               /\ last' = Call("transform", 1, 0, Deref(eng, a), b, t.res.ref,
                               a.ref,
                               IF /\ last.kind = "transform"
                                  /\ last.arg = a.ref
                                  /\ last.b = b
                                  /\ last.op = Deref(eng, a)
                               THEN 1 ELSE 0)
  /\ sent' = <<>>
  /\ ntok' = ntok + 1
  /\ UNCHANGED <<rooms, user_rooms, now, callers>>

NextOT == ApplyOperation \/ Transform

SpecOT == InitOT /\ [][NextOT]_vars

\* --------------------------------- a room joined and left by direct calls
\* The room of InitOT used through CollaborationRoom.join / leave and through
\* clients built by CollaborationClient(...), given a transport callback by
\* on_message and fed inbound payloads.

\* client = CollaborationClient(user_id, name, room); client.on_message(h);
\* room.join(client)
RoomJoin ==
  \E user_id \in Users, handler \in Handlers :
    /\ LET client == on_message(CollaborationClient(user_id, 1, robjs[1]),
                                handler)
           r == join(robjs[1], client)
       IN /\ robjs' = [robjs EXCEPT ![1] = r.room]
          /\ sent' = r.sent
          /\ last' = Call("join", 1, user_id, NoOp, 0, IF r.res THEN 1 ELSE 0,
                          0, 0)
    /\ UNCHANGED <<rooms, user_rooms, now, ntok, callers>>

\* room.leave(user_id); prev is 1 when the user had a cursor
RoomLeave ==
  \E user_id \in Users :
    /\ LET r == leave(robjs[1], user_id)
       IN /\ robjs' = [robjs EXCEPT ![1] = r.room]
          /\ sent' = r.sent
          /\ last' = Call("leave", 1, user_id, NoOp, 0, IF r.res THEN 1 ELSE 0,
                          0, IF robjs[1].cursors[user_id] # NoCursor THEN 1
                             ELSE 0)
    /\ UNCHANGED <<rooms, user_rooms, now, ntok, callers>>

\* client.handle_operation(data) by a member's client, the payload carrying
\* id, type, path, value, old_value, revision and timestamp; b is the
\* payload's type, arg is 1 when the call raised, prev is the payload's
\* timestamp
ClientOperation ==
  \E c \in Range(robjs[1].users), id \in Ids, type \in PayloadTypes,
     path \in Paths, timestamp \in Stamps :
   \E revision \in 0..robjs[1].ot_engine.revision :
    /\ ntok <= MaxRoomCalls
    /\ LET data == [id |-> id, type |-> type, path |-> path,
                    value |-> 2 * ntok, old_value |-> 2 * ntok + 1,
                    revision |-> revision, timestamp |-> timestamp]
           r == handle_operation(c, robjs[1], data, now, <<"uuid", ntok>>)
       IN /\ robjs' = [robjs EXCEPT ![1] = r.room]
          /\ sent' = r.sent
          /\ last' = Call("handle_operation", 1, c.user_id, r.op, type, r.res,
                          IF r.raised THEN 1 ELSE 0, timestamp)
          /\ ntok' = IF r.raised THEN ntok ELSE ntok + 1
    /\ UNCHANGED <<rooms, user_rooms, now, callers>>

\* client.handle_cursor_update(data) by a member's client; arg is the x sent,
\* prev is 1 when the user had a cursor
ClientCursorUpdate ==
  \E c \in Range(robjs[1].users), x \in Coords :
    /\ ntok <= MaxRoomCalls
    /\ LET r == handle_cursor_update(c, robjs[1],
                                     [node_id |-> 0, x |-> x, y |-> 0], now)
       IN /\ robjs' = [robjs EXCEPT ![1] = r.room]
          /\ sent' = r.sent
          /\ last' = Call("handle_cursor_update", 1, c.user_id, NoOp, 0, 0, x,
                          IF robjs[1].cursors[c.user_id] # NoCursor THEN 1
                          ELSE 0)
    /\ ntok' = ntok + 1
    /\ UNCHANGED <<rooms, user_rooms, now, callers>>

\* client.handle_chat_message(data) by a member's client
ClientChatMessage ==
  \E c \in Range(robjs[1].users) :
    /\ ntok <= MaxRoomCalls
    /\ LET r == handle_chat_message(c, robjs[1], [message |-> "hi"], now,
                                    <<"uuid", ntok>>)
       IN /\ robjs' = [robjs EXCEPT ![1] = r.room]
          /\ sent' = r.sent
          /\ last' = Call("handle_chat_message", 1, c.user_id, NoOp, 0, 0, 0, 0)
    /\ ntok' = ntok + 1
    /\ UNCHANGED <<rooms, user_rooms, now, callers>>

NextRoom ==
  \/ Tick
  \/ RoomJoin
  \/ RoomLeave
  \/ ClientOperation
  \/ ClientCursorUpdate
  \/ ClientChatMessage

SpecRoom == InitOT /\ [][NextRoom]_vars

\* ------------------------------------------------ a room's chat history
\* room.add_chat_message(user_id, user_name, message) on the room of InitOT;
\* the k-th call gets the id <<"uuid", k>>
ChatMessage ==
  /\ ntok <= MaxChat
  /\ LET r == add_chat_message(robjs[1], 1, "hi", now, <<"uuid", ntok>>)
     IN /\ robjs' = [robjs EXCEPT ![1] = r.room]
        /\ sent' = r.sent
        /\ last' = Call("add_chat_message", 1, 1, NoOp, 0, 0, 0, 0)
  /\ ntok' = ntok + 1
  /\ UNCHANGED <<rooms, user_rooms, now, callers>>

NextChat == Tick \/ ChatMessage

SpecChat == InitOT /\ [][NextChat]_vars

\* ------------------------------- join_room called from preemptive threads
\* Each user's thread makes one collaboration_manager.join_room(workflow_id,
\* user_id, name) call.  The manager holds no lock, so the statements of
\* get_or_create_room of different threads interleave; callers[u] is the
\* position of u's thread and its locals.
Idle == [pc |-> "idle", workflow_id |-> 0, room |-> 0]

\* self.rooms[room_id] = ref on the registry
register(reg, room_id, ref) ==
  IF Registered(reg, room_id)
  THEN [i \in 1..Len(reg) |->
          IF reg[i].room_id = room_id THEN [room_id |-> room_id, room |-> ref]
          ELSE reg[i]]
  ELSE Append(reg, [room_id |-> room_id, room |-> ref])

InitRace ==
  /\ robjs = <<>>
  /\ rooms = <<>>
  /\ user_rooms = [u \in Users |-> NoRoom]
  /\ now = 0
  /\ ntok = 1
  /\ sent = <<>>
  /\ last = NoCall
  /\ callers = [u \in Users |-> Idle]

\* the thread enters join_room and get_or_create_room: room_id = f"room_..."
Enter(u) ==
  /\ callers[u].pc = "idle"
  /\ \E workflow_id \in Workflows :
       callers' = [callers EXCEPT ![u] = [pc |-> "check",
                                          workflow_id |-> workflow_id,
                                          room |-> 0]]
  /\ UNCHANGED <<robjs, rooms, user_rooms, now, ntok, sent, last>>

\* if room_id not in self.rooms:
CheckRoom(u) ==
  /\ callers[u].pc = "check"
  /\ callers' = [callers EXCEPT ![u].pc =
                   IF Registered(rooms, RoomId(callers[u].workflow_id))
                   THEN "return" ELSE "create"]
  /\ UNCHANGED <<robjs, rooms, user_rooms, now, ntok, sent, last>>

\* self.rooms[room_id] = CollaborationRoom(room_id, workflow_id)
CreateRoom(u) ==
  /\ callers[u].pc = "create"
  /\ LET room_id == RoomId(callers[u].workflow_id)
     IN /\ robjs' = Append(robjs, CollaborationRoom(room_id,
                                                   callers[u].workflow_id, now))
        /\ rooms' = register(rooms, room_id, Len(robjs) + 1)
  /\ callers' = [callers EXCEPT ![u].pc = "return"]
  /\ UNCHANGED <<user_rooms, now, ntok, sent, last>>

\* return self.rooms[room_id]
ReturnRoom(u) ==
  /\ callers[u].pc = "return"
  /\ callers' = [callers EXCEPT
                   ![u].pc = "join",
                   ![u].room = RoomRef(rooms, RoomId(callers[u].workflow_id))]
  /\ UNCHANGED <<robjs, rooms, user_rooms, now, ntok, sent, last>>

\* the rest of join_room with the room it got (the user has no previous
\* room): the client is built and joined, user_rooms is set
JoinReturned(u) ==
  /\ callers[u].pc = "join"
  /\ LET room == callers[u].room
         client == CollaborationClient(u, room, robjs[room])
         joined == join(robjs[room], client)
     IN /\ robjs' = [robjs EXCEPT ![room] = joined.room]
        /\ user_rooms' = [user_rooms EXCEPT ![u] = robjs[room].room_id]
        /\ sent' = joined.sent
        /\ last' = Call("join_room", room, u, NoOp, 0, 0,
                        callers[u].workflow_id, user_rooms[u])
  /\ callers' = [callers EXCEPT ![u].pc = "done"]
  /\ UNCHANGED <<rooms, now, ntok>>

NextRace ==
  \E u \in Users :
    \/ Enter(u)
    \/ CheckRoom(u)
    \/ CreateRoom(u)
    \/ ReturnRoom(u)
    \/ JoinReturned(u)

SpecRace == InitRace /\ [][NextRace]_vars

\* ------------------------------------------- a room that runs out of colors
\* The manager with one document and MaxColorUser users.  New users arrive
\* in the order of their ids; members leave and re-join in any order.
InitColor ==
  /\ robjs = <<>>
  /\ rooms = <<>>
  /\ user_rooms = [u \in ColorUsers |-> NoRoom]
  /\ now = 0
  /\ ntok = 1
  /\ sent = <<>>
  /\ last = NoCall
  /\ callers = <<>>

\* the users who hold a user_rooms entry
Present == {u \in ColorUsers : user_rooms[u] # NoRoom}

\* collaboration_manager.join_room(1, user_id, name) by the next new user;
\* res is the color the client was given
Arrive ==
  \E user_id \in ColorUsers \ Present :
    /\ \A v \in ColorUsers \ Present : user_id <= v
    /\ LET r == join_room(robjs, rooms, user_rooms, 1, user_id, now)
       IN /\ robjs' = r.heap
          /\ rooms' = r.reg
          /\ user_rooms' = r.ur
          /\ sent' = r.sent
          /\ last' = Call("join_room", r.room, user_id, NoOp, 0,
                          r.client.user_color, 1, user_rooms[user_id])
    /\ UNCHANGED <<now, ntok, callers>>

\* collaboration_manager.join_room(1, user_id, name) by a user who is in
\* the room
Rejoin ==
  \E user_id \in Present :
    /\ ntok <= MaxColorLeaves
    /\ LET r == join_room(robjs, rooms, user_rooms, 1, user_id, now)
       IN /\ robjs' = r.heap
          /\ rooms' = r.reg
          /\ user_rooms' = r.ur
          /\ sent' = r.sent
          /\ last' = Call("join_room", r.room, user_id, NoOp, 0,
                          r.client.user_color, 1, user_rooms[user_id])
    /\ ntok' = ntok + 1
    /\ UNCHANGED <<now, callers>>

\* collaboration_manager.leave_room(user_id) by a user who is in the room
Depart ==
  \E user_id \in Present :
    /\ ntok <= MaxColorLeaves
    /\ LET r == leave_room(robjs, rooms, user_rooms, user_id)
       IN /\ robjs' = r.heap
          /\ user_rooms' = r.ur
          /\ sent' = r.sent
          /\ last' = Call("leave_room", 0, user_id, NoOp, 0, 0, 0,
                          user_rooms[user_id])
    /\ ntok' = ntok + 1
    /\ UNCHANGED <<rooms, now, callers>>

NextColor == Arrive \/ Rejoin \/ Depart

SpecColor == InitColor /\ [][NextColor]_vars

\* ------------------------------------- the janitor and raising callbacks
\* The manager's rooms joined by connections that register a transport
\* callback on the client join_room returned.

\* client.on_message(handler) on the client the room stores for user_id
with_handler(room, user_id, handler) ==
  [room EXCEPT !.users =
     [i \in 1..Len(@) |-> IF @[i].user_id = user_id
                          THEN on_message(@[i], handler) ELSE @[i]]]

\* room, client = collaboration_manager.join_room(workflow_id, user_id, name);
\* client.on_message(handler)
Connect ==
  \E workflow_id \in Workflows, user_id \in Users, handler \in Handlers :
    /\ Registered(rooms, RoomId(workflow_id)) \/ Len(robjs) < MaxRooms
    /\ LET r == join_room(robjs, rooms, user_rooms, workflow_id, user_id, now)
       IN /\ robjs' = [r.heap EXCEPT ![r.room] =
                         with_handler(@, user_id, handler)]
          /\ rooms' = r.reg
          /\ user_rooms' = r.ur
          /\ sent' = r.sent
          /\ last' = Call("join_room", r.room, user_id, NoOp, 0, 0, workflow_id,
                          user_rooms[user_id])
    /\ UNCHANGED <<now, ntok, callers>>

NextJanitor == Tick \/ Connect \/ LeaveRoom \/ CleanupIdleRooms

SpecJanitor == Init /\ [][NextJanitor]_vars

\* ------------------------------------ connections that outlive membership
\* The room of InitOT and one connection per user.  A connection keeps the
\* client it built (callers[u]) after room.leave(u) removed the user, and
\* goes on feeding it cursor payloads.
NoClient == [user_id |-> 0]

\* CollaborationRoom.get_room_state(): the revision, the users and the
\* cursors it reports (chat_history[-20:] is left out)
get_room_state(room) ==
  [room_id |-> room.room_id, workflow_id |-> room.workflow_id,
   revision |-> room.ot_engine.revision,
   users |-> {[user_id |-> room.users[i].user_id,
               user_color |-> room.users[i].user_color] :
                i \in 1..Len(room.users)},
   cursors |-> {[user_id |-> room.cursors[u].user_id, x |-> room.cursors[u].x,
                 y |-> room.cursors[u].y, node_id |-> room.cursors[u].node_id] :
                  u \in {v \in AllUsers : room.cursors[v] # NoCursor}}]

InitStale ==
  /\ robjs = <<CollaborationRoom(RoomId(1), 1, 0)>>
  /\ rooms = <<>>
  /\ user_rooms = [u \in Users |-> NoRoom]
  /\ now = 0
  /\ ntok = 1
  /\ sent = <<>>
  /\ last = NoCall
  /\ callers = [u \in Users |-> NoClient]

\* a connection of a user who is no member builds a client and joins it
Attach ==
  \E user_id \in Users :
    /\ user_id \notin Members(robjs[1])
    /\ LET client == CollaborationClient(user_id, 1, robjs[1])
           r == join(robjs[1], client)
       IN /\ robjs' = [robjs EXCEPT ![1] = r.room]
          /\ sent' = r.sent
          /\ callers' = [callers EXCEPT ![user_id] = client]
          /\ last' = Call("join", 1, user_id, NoOp, 0, IF r.res THEN 1 ELSE 0,
                          0, 0)
    /\ UNCHANGED <<rooms, user_rooms, now, ntok>>

\* room.leave(user_id), as leave_room or the janitor calls it; the
\* connection keeps its client
Detach ==
  \E user_id \in Members(robjs[1]) :
    /\ LET r == leave(robjs[1], user_id)
       IN /\ robjs' = [robjs EXCEPT ![1] = r.room]
          /\ sent' = r.sent
          /\ last' = Call("leave", 1, user_id, NoOp, 0, IF r.res THEN 1 ELSE 0,
                          0, IF robjs[1].cursors[user_id] # NoCursor THEN 1
                             ELSE 0)
    /\ UNCHANGED <<rooms, user_rooms, now, ntok, callers>>

\* client.handle_cursor_update(data) on the client a connection holds
CursorFromConnection ==
  \E user_id \in Users, x \in Coords :
    /\ callers[user_id] # NoClient
    /\ ntok <= MaxRoomCalls
    /\ LET r == handle_cursor_update(callers[user_id], robjs[1],
                                     [node_id |-> 0, x |-> x, y |-> 0], now)
       IN /\ robjs' = [robjs EXCEPT ![1] = r.room]
          /\ sent' = r.sent
          /\ last' = Call("handle_cursor_update", 1, user_id, NoOp, 0, 0, x,
                          IF robjs[1].cursors[user_id] # NoCursor THEN 1
                          ELSE 0)
    /\ ntok' = ntok + 1
    /\ UNCHANGED <<rooms, user_rooms, now, callers>>

NextStale == Attach \/ Detach \/ CursorFromConnection

SpecStale == InitStale /\ [][NextStale]_vars

\* ------------------------------------- a room fed operation payloads only
\* The room of InitOT, joined by clients whose callbacks work, with the
\* clock running and the members' clients handling operation payloads.

\* client = CollaborationClient(user_id, name, room); client.on_message(ok);
\* room.join(client)
Enroll ==
  \E user_id \in Users :
    /\ user_id \notin Members(robjs[1])
    /\ LET client == on_message(CollaborationClient(user_id, 1, robjs[1]), "ok")
           r == join(robjs[1], client)
       IN /\ robjs' = [robjs EXCEPT ![1] = r.room]
          /\ sent' = r.sent
          /\ last' = Call("join", 1, user_id, NoOp, 0, IF r.res THEN 1 ELSE 0,
                          0, 0)
    /\ UNCHANGED <<rooms, user_rooms, now, ntok, callers>>

\* client.handle_operation(data) by a member's client with an update
\* payload; id = 0: the payload has no id and uuid4 gives one, here the
\* fresh id MaxId + ntok that no payload carries
PayloadOperation ==
  \E c \in Range(robjs[1].users), id \in Ids \cup {0}, path \in Paths :
   \E revision \in 0..robjs[1].ot_engine.revision :
    /\ ntok <= MaxPayloads
    /\ LET data == [id |-> id, type |-> "update", path |-> path,
                    value |-> 2 * ntok, old_value |-> 2 * ntok + 1,
                    revision |-> revision, timestamp |-> 0]
           r == handle_operation(c, robjs[1], data, now, MaxId + ntok)
       IN /\ robjs' = [robjs EXCEPT ![1] = r.room]
          /\ sent' = r.sent
          /\ last' = Call("handle_operation", 1, c.user_id, r.op, data.type,
                          r.res, 0, 0)
    /\ ntok' = ntok + 1
    /\ UNCHANGED <<rooms, user_rooms, now, callers>>

NextOps == Tick \/ Enroll \/ PayloadOperation

SpecOps == InitOT /\ [][NextOps]_vars

\* --------------------------- apply_operation from two connection handlers
\* One room with every user joined; the connection handler of each user runs
\* room.apply_operation once, on a preemptive thread, and the threads
\* interleave between the statements of the call.  callers[u] is the thread's
\* position and its local op.  The operations carry distinct ids, so no two
\* transform calls share a cache key.

Waiting == [pc |-> "idle", op |-> Held(NoOp)]

RECURSIVE joined_by(_, _)
\* the room after room.join(CollaborationClient(u, ...)) for u = 1..n, each
\* client with a working callback
joined_by(room, n) ==
  IF n = 0 THEN room
  ELSE LET before == joined_by(room, n - 1)
       IN join(before, on_message(CollaborationClient(n, 1, before), "ok")).room

InitApply ==
  /\ robjs = <<joined_by(CollaborationRoom(RoomId(1), 1, 0), MaxUser)>>
  /\ rooms = <<>>
  /\ user_rooms = [u \in Users |-> NoRoom]
  /\ now = 0
  /\ ntok = 1
  /\ sent = <<>>
  /\ last = NoCall
  /\ callers = [u \in Users |-> Waiting]

\* the handler of user u calls room.apply_operation(op, u) with an operation
\* of its own id, based on a revision it has seen
Submit(u) ==
  /\ callers[u].pc = "idle"
  /\ \E path \in Paths, revision \in 0..robjs[1].ot_engine.revision :
       callers' = [callers EXCEPT ![u] =
                     [pc |-> "fold",
                      op |-> Held(Operation(u, "update", path, 2 * u,
                                            2 * u + 1, now, 0, revision))]]
  /\ UNCHANGED <<robjs, rooms, user_rooms, now, ntok, sent, last>>

\* op.user_id = user_id, then the loop over get_operations_since(op.revision)
Fold(u) ==
  /\ callers[u].pc = "fold"
  /\ LET eng == robjs[1].ot_engine
         op == [callers[u].op.rec EXCEPT !.user_id = u]
         folded == fold_transform(eng, Held(op),
                                  get_operations_since(eng, op.revision), u)
     IN /\ robjs' = [robjs EXCEPT ![1].ot_engine = folded.eng]
        /\ callers' = [callers EXCEPT ![u] = [pc |-> "incr",
                                              op |-> folded.res]]
  /\ UNCHANGED <<rooms, user_rooms, now, ntok, sent, last>>

\* self.revision += 1
Increment(u) ==
  /\ callers[u].pc = "incr"
  /\ robjs' = [robjs EXCEPT ![1].ot_engine.revision = @ + 1]
  /\ callers' = [callers EXCEPT ![u].pc = "stamp"]
  /\ UNCHANGED <<rooms, user_rooms, now, ntok, sent, last>>

\* op.revision = self.revision
Stamp(u) ==
  /\ callers[u].pc = "stamp"
  /\ LET eng == robjs[1].ot_engine
         h == callers[u].op
     IN IF h.ref = 0
        THEN /\ callers' = [callers EXCEPT
                              ![u] = [pc |-> "append",
                                      op |-> Held([h.rec EXCEPT !.revision =
                                                     eng.revision])]]
             /\ UNCHANGED robjs
        ELSE /\ robjs' = [robjs EXCEPT ![1].ot_engine.objs[h.ref].revision =
                                         eng.revision]
             /\ callers' = [callers EXCEPT ![u].pc = "append"]
  /\ UNCHANGED <<rooms, user_rooms, now, ntok, sent, last>>

\* self.operations.append(op)
AppendOperation(u) ==
  /\ callers[u].pc = "append"
  /\ LET eng == robjs[1].ot_engine
         h == callers[u].op
         ref == IF h.ref = 0 THEN Len(eng.objs) + 1 ELSE h.ref
         objs == IF h.ref = 0 THEN Append(eng.objs, h.rec) ELSE eng.objs
     IN /\ robjs' = [robjs EXCEPT ![1].ot_engine.objs = objs,
                                  ![1].ot_engine.operations = Append(@, ref)]
        /\ callers' = [callers EXCEPT ![u] = [pc |-> "finish",
                                              op |-> Stored(ref)]]
  /\ UNCHANGED <<rooms, user_rooms, now, ntok, sent, last>>

\* return op to the room; self.broadcast_operation(applied_op);
\* self.last_activity = time.time(); return applied_op
Finish(u) ==
  /\ callers[u].pc = "finish"
  /\ LET applied_op == robjs[1].ot_engine.objs[callers[u].op.ref]
     IN /\ sent' = broadcast(robjs[1], "operation", applied_op, 0)
        /\ last' = Call("apply_operation", 1, u, applied_op, 0,
                        callers[u].op.ref, 0, 0)
  /\ robjs' = [robjs EXCEPT ![1].last_activity = now]
  /\ callers' = [callers EXCEPT ![u].pc = "done"]
  /\ UNCHANGED <<rooms, user_rooms, now, ntok>>

\* the clock moves while the handlers run
ClockTick ==
  /\ now < MaxTime
  /\ now' = now + 1
  /\ UNCHANGED <<robjs, rooms, user_rooms, ntok, sent, last, callers>>

NextApply ==
  \/ ClockTick
  \/ \E u \in Users :
       \/ Submit(u)
       \/ Fold(u)
       \/ Increment(u)
       \/ Stamp(u)
       \/ AppendOperation(u)
       \/ Finish(u)

SpecApply == InitApply /\ [][NextApply]_vars

\* ================================================================ claims
\* the log of room object r as the Operation objects it holds, in order
Log(heap, r) ==
  [i \in 1..Len(heap[r].ot_engine.operations) |->
     heap[r].ot_engine.objs[heap[r].ot_engine.operations[i]]]

\* C1 (as claimed): in every room the k-th log entry carries revision k, so
\* the revisions held by the log are exactly 1..N in application order, N
\* being the revision counter (the number of apply_operation calls), and the
\* operation a call returns carries the revision the call assigned.
C1_RevisionsAreOneToN ==
  /\ \A r \in 1..Len(robjs) :
       /\ Len(Log(robjs, r)) = robjs[r].ot_engine.revision
       /\ \A k \in 1..Len(Log(robjs, r)) : Log(robjs, r)[k].revision = k
  /\ last.kind \in {"apply_operation", "handle_operation"} =>
       robjs[last.room].ot_engine.objs[last.res].revision =
         robjs[last.room].ot_engine.revision

\* C2 (as claimed): no call changes an entry already in the log: entry i stays
\* the i-th entry with the revision it was given, and no other entry carries
\* that revision afterwards.
C2_LogAppendOnly ==
  [][\A r \in 1..Len(robjs) : \A i \in 1..Len(Log(robjs, r)) :
       /\ Len(Log(robjs', r)) >= i
       /\ Log(robjs', r)[i].revision = Log(robjs, r)[i].revision
       /\ \A j \in 1..Len(Log(robjs', r)) :
            j # i => Log(robjs', r)[j].revision # Log(robjs, r)[i].revision]_vars

\* C3 (as claimed): when the first write of a path (log entry 1) is by one user
\* and a second user then writes the same path from a base revision below
\* it, with a different timestamp, the newest log entry carries the value of
\* whichever of the two writes has the larger timestamp.
C3_LastWriteWinsByTimestamp ==
  LET log == Log(robjs, last.room)
      n == Len(log)
      first == log[1]
  IN (/\ last.kind = "apply_operation"
      /\ n >= 2
      /\ \A i \in 1..(n - 1) : (log[i].path = last.op.path) <=> (i = 1)
      /\ first.user_id # last.user
      /\ last.op.revision < first.revision
      /\ last.op.timestamp # first.timestamp)
     => log[n].value = IF last.op.timestamp > first.timestamp
                       THEN last.op.value ELSE first.value

\* what transform(a, b) must return on equal paths according to the rule
SamePathRule(a, b) ==
  IF a.timestamp < b.timestamp THEN a ELSE [a EXCEPT !.value = b.value]

\* C4 (as claimed): transform(a, b) with a.path = b.path returns an operation
\* equal to a when a.timestamp < b.timestamp and equal to a but for the
\* value of b otherwise, and modifies no operation that existed before.
C4_SamePathTransform ==
  [][(last'.kind = "transform" /\
      last'.op.path = robjs[1].ot_engine.objs[last'.b].path) =>
       /\ robjs'[1].ot_engine.objs[last'.res] =
            SamePathRule(last'.op, robjs[1].ot_engine.objs[last'.b])
       /\ \A o \in 1..Len(robjs[1].ot_engine.objs) :
            robjs'[1].ot_engine.objs[o] = robjs[1].ot_engine.objs[o]]_vars

\* C5 (as claimed): in every engine state transform(a, b) with
\* a.path # b.path returns an operation equal to a in all eight fields.
C5_PathIndependence ==
  [][(last'.kind = "transform" /\
      last'.op.path # robjs[1].ot_engine.objs[last'.b].path) =>
       robjs'[1].ot_engine.objs[last'.res] = last'.op]_vars

\* the operations of the log an incoming op of user_id may adopt a value from
\* according to C6: later than its base revision, by another user, on its
\* path and not newer than it
Adoptable(log, op, user_id) ==
  {i \in 1..Len(log) : /\ log[i].revision > op.revision
                       /\ log[i].user_id # user_id
                       /\ log[i].path = op.path
                       /\ log[i].timestamp <= op.timestamp}

\* the value C6 says is accepted
AcceptedValue(log, op, user_id) ==
  LET cands == Adoptable(log, op, user_id)
  IN IF cands = {} THEN op.value
     ELSE log[CHOOSE i \in cands :
                \A j \in cands : log[j].revision <= log[i].revision].value

\* C6 (as claimed): apply_operation(op, user) accepts op, as the next
\* revision, with the value of the highest-revision logged operation that is
\* later than op's base revision, by another user, on the same path and with
\* a timestamp <= op's, and with op's own value when there is none.
C6_FoldedValue ==
  [][last'.kind = "apply_operation" =>
       LET accepted == robjs'[1].ot_engine.objs[last'.res]
       IN /\ accepted.value = AcceptedValue(Log(robjs, 1), last'.op, last'.user)
          /\ accepted.revision = robjs[1].ot_engine.revision + 1
          /\ accepted.path = last'.op.path
          /\ accepted.user_id = last'.user]_vars

\* the room objects user u is a member of
RoomsOf(u) == {r \in 1..Len(robjs) : u \in Members(robjs[r])}

\* C7: every user is a member of at most one room, and after
\* join_room(w, u) the user is a member of the room of w and of no other.
C7_SingleRoom ==
  /\ \A u \in Users : Cardinality(RoomsOf(u)) <= 1
  /\ last.kind = "join_room" =>
       /\ RoomsOf(last.user) = {last.room}
       /\ robjs[last.room].room_id = RoomId(last.arg)
       /\ Registered(rooms, RoomId(last.arg))
       /\ RoomRef(rooms, RoomId(last.arg)) = last.room

\* C7 witness: a join_room of a user who was in the room of another workflow,
\* which is still registered
C7_Witness ==
  /\ last.kind = "join_room"
  /\ last.prev # NoRoom
  /\ last.prev # RoomId(last.arg)
  /\ Registered(rooms, last.prev)
  /\ last.user \notin Members(robjs[RoomRef(rooms, last.prev)])

\* now - room.last_activity > max_idle_seconds
IdleAt(room, t, max_idle_seconds) == t - room.last_activity > max_idle_seconds

\* C8: a janitor pass with threshold max_idle_seconds leaves no room
\* registered whose last_activity was older than the threshold at the pass,
\* leaves such a room without members, and leaves no user_rooms entry that
\* points to a room the pass removed.
C8_IdleEviction ==
  [][last'.kind = "cleanup" =>
       \A i \in 1..Len(rooms) :
         /\ IdleAt(robjs[rooms[i].room], now, last'.arg) =>
              /\ ~Registered(rooms', rooms[i].room_id)
              /\ robjs'[rooms[i].room].users = <<>>
         /\ ~Registered(rooms', rooms[i].room_id) =>
              \A u \in Users : user_rooms'[u] # rooms[i].room_id]_vars

\* C8 witness: a pass that removed a room and kicked its (two or more)
\* members, the remaining one being told of each leave
C8_Witness ==
  /\ last.kind = "cleanup"
  /\ Len(rooms) < last.prev
  /\ \E k \in 1..Len(sent) : sent[k].type = "user_left"

\* C9 (as claimed): right after an accepted operation, a cursor update or a
\* chat message the room's last_activity is the time of that call (so the
\* room is not idle for any threshold at a pass made at that time).
C9_ActivityRefreshed ==
  last.kind \in {"handle_operation", "handle_cursor_update",
                 "handle_chat_message"} =>
    /\ robjs[last.room].last_activity = now
    /\ \A m \in Thresholds : ~IdleAt(robjs[last.room], now, m)

\* C10 (as claimed): join_room for a user who is already a member of the
\* target room leaves the room's clients as they were and sends no user_left.
C10_RejoinIsNoOp ==
  [][(/\ last'.kind = "join_room"
      /\ last'.room <= Len(robjs)
      /\ last'.user \in Members(robjs[last'.room])) =>
       /\ Range(robjs'[last'.room].users) = Range(robjs[last'.room].users)
       /\ \A k \in 1..Len(sent') : sent'[k].type # "user_left"]_vars

\* the positions in msgs of the messages of one type handed to user u
SentTo(msgs, u, type) ==
  {k \in 1..Len(msgs) : msgs[k].to = u /\ msgs[k].type = type}

\* C11: CollaborationRoom.join(client) for a user who is no member adds the
\* client, hands exactly one user_joined to each of the other members and none
\* to the joiner, and returns true; a join for a user id that is a member
\* returns false, leaves the stored clients as they were and sends nothing.
C11_JoinOnce ==
  [][last'.kind = "join" =>
       LET room == robjs[1]
           after == robjs'[1]
           u == last'.user
       IN IF u \notin Members(room)
          THEN /\ last'.res = 1
               /\ Len(after.users) = Len(room.users) + 1
               /\ Members(after) = Members(room) \cup {u}
               /\ SubSeq(after.users, 1, Len(room.users)) = room.users
               /\ \A m \in Members(room) :
                    Cardinality(SentTo(sent', m, "user_joined")) = 1
               /\ \A k \in 1..Len(sent') :
                    sent'[k].to # u /\ sent'[k].data.user_id = u
               /\ Len(sent') = Cardinality(Members(room))
          ELSE /\ last'.res = 0
               /\ after.users = room.users
               /\ sent' = <<>>]_vars

\* a join for a member of a room of two has just returned false
C11_Witness ==
  /\ last.kind = "join"
  /\ last.res = 0
  /\ Len(robjs[1].users) = MaxUser
  /\ last.user = robjs[1].users[1].user_id

\* C12: CollaborationRoom.leave(user_id) for a member removes the member and
\* that user's cursor, hands exactly one user_left to each remaining member
\* and none to the leaver, and returns true; for a user who is no member it
\* returns false, changes nothing in the room and sends nothing.
C12_LeaveOnce ==
  [][last'.kind = "leave" =>
       LET room == robjs[1]
           after == robjs'[1]
           u == last'.user
       IN IF u \in Members(room)
          THEN /\ last'.res = 1
               /\ Members(after) = Members(room) \ {u}
               /\ Len(after.users) = Len(room.users) - 1
               /\ after.cursors[u] = NoCursor
               /\ \A v \in Users \ {u} : after.cursors[v] = room.cursors[v]
               /\ \A m \in Members(after) :
                    Cardinality(SentTo(sent', m, "user_left")) = 1
               /\ \A k \in 1..Len(sent') :
                    sent'[k].to # u /\ sent'[k].data = u
               /\ Len(sent') = Cardinality(Members(after))
          ELSE /\ last'.res = 0
               /\ after = room
               /\ sent' = <<>>]_vars

\* a member who had a cursor has just left a room where another member stays
C12_Witness ==
  /\ last.kind = "leave"
  /\ last.res = 1
  /\ last.prev = 1
  /\ sent # <<>>
  /\ robjs[1].cursors[last.user] = NoCursor

\* C13: after n add_chat_message calls on a room the chat history holds
\* exactly the last min(n, 100) messages added, in the order they were added.
C13_ChatCap ==
  LET n == ntok - 1
      h == robjs[1].chat_history
      kept == IF n < ChatCap THEN n ELSE ChatCap
  IN /\ Len(h) = kept
     /\ \A i \in 1..Len(h) : h[i].id = <<"uuid", n - kept + i>>

\* MaxChat messages were added and the history is the newest ChatCap of them
C13_Witness ==
  /\ ntok - 1 = MaxChat
  /\ MaxChat > ChatCap
  /\ Len(robjs[1].chat_history) = ChatCap
  /\ robjs[1].chat_history[1].id = <<"uuid", MaxChat - ChatCap + 1>>

\* C14: every accepted operation is handed exactly once to every current
\* member of the room, the originator included, and the message carries the
\* revision the log assigned and the value stored in the log entry (the
\* folded value, not the value of the payload).
C14_OperationBroadcast ==
  [][(last'.kind = "handle_operation" /\ last'.arg = 0) =>
       LET eng == robjs'[1].ot_engine
           entry == eng.objs[eng.operations[Len(eng.operations)]]
       IN /\ last'.user \in Members(robjs[1])
          /\ \A m \in Members(robjs[1]) :
               Cardinality(SentTo(sent', m, "operation")) = 1
          /\ Len(sent') = Cardinality(Members(robjs[1]))
          /\ eng.operations[Len(eng.operations)] = last'.res
          /\ \A k \in 1..Len(sent') :
               /\ sent'[k].data.revision = eng.revision
               /\ sent'[k].data.revision = entry.revision
               /\ sent'[k].data.value = entry.value]_vars

\* an operation whose value was folded was broadcast to two members
C14_Witness ==
  /\ last.kind = "handle_operation"
  /\ last.arg = 0
  /\ Len(sent) = MaxUser
  /\ sent[1].data.value # last.op.value
  /\ sent[1].data.id = last.op.id

\* C15: update_cursor stores the cursor as the one cursor of cursor.user_id,
\* replacing whatever was stored for that user and touching no other user's
\* cursor, and hands exactly one cursor_update to every member except the
\* originator.
C15_CursorReplaced ==
  [][last'.kind = "handle_cursor_update" =>
       LET room == robjs[1]
           after == robjs'[1]
           u == last'.user
       IN /\ after.cursors[u].user_id = u
          /\ after.cursors[u].x = last'.arg
          /\ after.cursors[u].last_update = now
          /\ \A k \in 1..Len(sent') : sent'[k].data = after.cursors[u]
          /\ \A v \in Users \ {u} : after.cursors[v] = room.cursors[v]
          /\ \A m \in Members(room) \ {u} :
               Cardinality(SentTo(sent', m, "cursor_update")) = 1
          /\ SentTo(sent', u, "cursor_update") = {}
          /\ Len(sent') = Cardinality(Members(room) \ {u})]_vars

\* a second cursor of the same user, at another position, replaced the first
\* and went to the other member
C15_Witness ==
  /\ last.kind = "handle_cursor_update"
  /\ last.prev = 1
  /\ last.arg = 1
  /\ robjs[1].cursors[last.user].x = 1
  /\ \A v \in Users \ {last.user} : robjs[1].cursors[v] = NoCursor
  /\ Len(sent) = 1

\* the members a call's broadcast is meant for, in the room after the call
Intended(kind, after, u) ==
  IF kind \in {"join", "handle_cursor_update"} THEN Members(after) \ {u}
  ELSE Members(after)

\* the client stored for member m
ClientOf(room, m) ==
  room.users[CHOOSE i \in 1..Len(room.users) : room.users[i].user_id = m]

\* C16: when a member's send raises during a broadcast, every other intended
\* recipient is still handed the message (and a recipient whose callback
\* works receives it), the call returns its normal result, and the change
\* that caused the broadcast (membership, log entry, cursor, chat entry) is
\* in the room.
C16_BroadcastIsolation ==
  [][(\E k \in 1..Len(sent') : sent'[k].outcome = "raised") =>
       LET room == robjs[1]
           after == robjs'[1]
           kind == last'.kind
           u == last'.user
       IN /\ \A m \in Intended(kind, after, u) :
               Cardinality({k \in 1..Len(sent') : sent'[k].to = m}) = 1
          /\ \A k \in 1..Len(sent') :
               /\ sent'[k].to \in Intended(kind, after, u)
               /\ ClientOf(after, sent'[k].to).handler = "ok"
                    => sent'[k].outcome = "delivered"
          /\ kind = "join" => last'.res = 1 /\ u \in Members(after)
          /\ kind = "leave" =>
               last'.res = 1 /\ u \notin Members(after)
               /\ after.cursors[u] = NoCursor
          /\ kind = "handle_operation" =>
               /\ last'.arg = 0
               /\ Len(after.ot_engine.operations)
                    = Len(room.ot_engine.operations) + 1
               /\ after.ot_engine.operations[Len(after.ot_engine.operations)]
                    = last'.res
               /\ after.last_activity = now
          /\ kind = "handle_cursor_update" =>
               after.cursors[u].x = last'.arg
               /\ after.cursors[u].last_update = now
          /\ kind = "handle_chat_message" =>
               after.chat_history[Len(after.chat_history)].id
                 = <<"uuid", ntok>>]_vars

\* a broadcast met a raising callback first and a working one after it
C16_Witness ==
  /\ Len(sent) = MaxUser
  /\ sent[1].outcome = "raised"
  /\ sent[Len(sent)].outcome = "delivered"
  /\ last.kind \in {"handle_operation", "handle_chat_message"}

\* C17: handle_operation with a payload whose type is none of the six
\* operation types raises to its caller and leaves the room as it was
\* (revision counter, log, last_activity) and nothing is broadcast.
C17_UnknownTypeRejected ==
  [][(last'.kind = "handle_operation" /\ last'.b \notin OperationType) =>
       /\ last'.arg = 1
       /\ robjs' = robjs
       /\ sent' = <<>>]_vars

\* a payload of unknown type was refused in a room of two with an operation
\* in its log, at a time later than the room's last activity
C17_Witness ==
  /\ last.kind = "handle_operation"
  /\ last.b = "bogus"
  /\ last.arg = 1
  /\ Len(robjs[1].users) = MaxUser
  /\ robjs[1].ot_engine.revision = 1
  /\ robjs[1].last_activity < now

\* C19 (as claimed): the operation accepted for a payload that carries a
\* timestamp, and every broadcast of it, has the payload's timestamp.
C19_PayloadTimestampKept ==
  (last.kind = "handle_operation" /\ last.arg = 0) =>
    /\ robjs[1].ot_engine.objs[last.res].timestamp = last.prev
    /\ \A k \in 1..Len(sent) : sent[k].data.timestamp = last.prev

\* C20: a transform call that repeats the previous transform call's
\* arguments returns the very object the first call returned, which is the
\* object the cache holds under the pair of ids, with the same contents, and
\* it changes neither the log nor the revision counter.
C20_TransformRepeat ==
  [][(/\ last.kind = "transform"
      /\ last'.kind = "transform"
      /\ last'.arg = last.arg
      /\ last'.b = last.b
      /\ last'.op = last.op) =>
       LET eng == robjs[1].ot_engine
           after == robjs'[1].ot_engine
       IN /\ last'.res = last.res
          /\ eng.cache[<<last.op.id, eng.objs[last.b].id>>] = last.res
          /\ after.cache[<<last.op.id, eng.objs[last.b].id>>] = last.res
          /\ after.objs[last'.res] = eng.objs[last.res]
          /\ after.operations = eng.operations
          /\ after.revision = eng.revision
          /\ Len(after.objs) = Len(eng.objs)]_vars

\* a caller-built operation was transformed twice against the same log entry
C20_Witness ==
  /\ last.kind = "transform"
  /\ last.prev = 1
  /\ last.arg = 0
  /\ robjs[1].ot_engine.objs[last.res].id = last.op.id

\* C18 (as claimed): threads that called for the same document and got their
\* room hold the same room object, no two room objects were ever built for
\* one room id, and every user who joined through the room they got is a
\* member of the room registered for the document.
C18_OneRoomPerDocument ==
  /\ \A u, v \in Users :
       (/\ callers[u].pc \in {"join", "done"}
        /\ callers[v].pc \in {"join", "done"}
        /\ callers[u].workflow_id = callers[v].workflow_id)
         => callers[u].room = callers[v].room
  /\ \A i, j \in 1..Len(robjs) :
       robjs[i].room_id = robjs[j].room_id => i = j
  /\ \A u \in Users :
       callers[u].pc = "done" =>
         u \in Members(robjs[RoomRef(rooms, RoomId(callers[u].workflow_id))])

\* the colors held in room object r of heap by the members other than u
HeldColors(heap, r, u) ==
  IF r > Len(heap) THEN {}
  ELSE {heap[r].users[i].user_color :
          i \in {k \in 1..Len(heap[r].users) : heap[r].users[k].user_id # u}}

DistinctColors(room) ==
  \A i, j \in 1..Len(room.users) :
    room.users[i].user_color = room.users[j].user_color => i = j

C22_JanitorSurvivesRaise ==
  [][(/\ last'.kind = "cleanup"
      /\ \E k \in 1..Len(sent') : sent'[k].outcome = "raised") =>
       \A i \in 1..Len(rooms) :
         IdleAt(robjs[rooms[i].room], now, last'.arg) =>
           /\ ~Registered(rooms', rooms[i].room_id)
           /\ \A u \in Members(robjs[rooms[i].room]) : user_rooms'[u] = NoRoom
           /\ Members(robjs'[rooms[i].room]) = {}]_vars

\* a pass removed two rooms and a forced leave of it met a raising callback
C22_Witness ==
  /\ last.kind = "cleanup"
  /\ last.prev = MaxRooms
  /\ rooms = <<>>
  /\ \E k \in 1..Len(sent) : sent[k].outcome = "raised"

\* C23: a registered room stays registered, as the same object and with its
\* log, cache and revision counter as they were, through every join_room and
\* leave_room, the leave of its last member included; a join_room for a
\* document whose room is registered gets that room; a room leaves the
\* registry only in a janitor pass.
C23_RoomLifecycle ==
  [][/\ last'.kind # "cleanup" =>
          /\ Len(rooms') >= Len(rooms)
          /\ \A i \in 1..Len(rooms) : rooms'[i] = rooms[i]
     /\ last'.kind \in {"join_room", "leave_room"} =>
          \A i \in 1..Len(rooms) :
            robjs'[rooms[i].room].ot_engine = robjs[rooms[i].room].ot_engine
     /\ (last'.kind = "join_room" /\ Registered(rooms, RoomId(last'.arg))) =>
          last'.room = RoomRef(rooms, RoomId(last'.arg))]_vars

\* a user who was in no room joined a room that had an operation in its log
\* and no member left
C23_Witness ==
  /\ last.kind = "join_room"
  /\ last.prev = NoRoom
  /\ Members(robjs[last.room]) = {last.user}
  /\ robjs[last.room].ot_engine.revision = 1
  /\ Len(robjs[last.room].ot_engine.operations) = 1

\* C24: user_rooms[u] = r exactly when r is a registered room and u is a
\* member of it: an entry names a registered room that has the user as a
\* member, and every member of a registered room has the entry of that room.
C24_ReverseIndex ==
  /\ \A u \in Users :
       user_rooms[u] # NoRoom =>
         /\ Registered(rooms, user_rooms[u])
         /\ u \in Members(robjs[RoomRef(rooms, user_rooms[u])])
  /\ \A i \in 1..Len(rooms) :
       \A u \in Members(robjs[rooms[i].room]) :
         user_rooms[u] = rooms[i].room_id

\* a janitor pass removed one user's room and left another user in theirs
C24_Witness ==
  /\ last.kind = "cleanup"
  /\ Len(rooms) < last.prev
  /\ \E u \in Users : user_rooms[u] # NoRoom
  /\ \E r \in 1..Len(robjs), u \in Users :
       /\ ~Registered(rooms, robjs[r].room_id)
       /\ robjs[r].last_activity < now
       /\ user_rooms[u] = NoRoom

\* C26: a janitor pass removes from the registry exactly the rooms with
\* now - last_activity > max_idle_seconds, with or without members; every
\* other room stays registered with its members, cursors, chat history and
\* log as they were, and its members keep their user_rooms entries.  A
\* join_room or leave_room changes no room's last_activity.
C26_ExactEviction ==
  [][/\ last'.kind \in {"join_room", "leave_room"} =>
          \A r \in 1..Len(robjs) :
            robjs'[r].last_activity = robjs[r].last_activity
     /\ last'.kind = "cleanup" =>
       /\ \A i \in 1..Len(rooms) :
            LET room == robjs[rooms[i].room]
            IN IF now - room.last_activity > last'.arg
               THEN ~Registered(rooms', rooms[i].room_id)
               ELSE /\ \E j \in 1..Len(rooms') : rooms'[j] = rooms[i]
                    /\ robjs'[rooms[i].room] = room
                    /\ \A u \in Members(room) : user_rooms'[u] = user_rooms[u]
       /\ \A j \in 1..Len(rooms') : \E i \in 1..Len(rooms) : rooms[i] = rooms'[j]
       /\ Len(robjs') = Len(robjs)]_vars

\* a pass with threshold 0 removed a room and kept one, with a member, whose
\* last activity was at the time of the pass
C26_Witness ==
  /\ last.kind = "cleanup"
  /\ last.arg = 0
  /\ Len(rooms) = 1
  /\ last.prev = MaxRooms
  /\ robjs[rooms[1].room].last_activity = now
  /\ robjs[rooms[1].room].users # <<>>

\* C25 (as claimed): every cursor a room stores, and every cursor
\* get_room_state reports, is the cursor of a current member of the room.
C25_CursorsOfMembers ==
  \A r \in 1..Len(robjs) :
    /\ \A u \in AllUsers :
         robjs[r].cursors[u] # NoCursor => u \in Members(robjs[r])
    /\ \A c \in get_room_state(robjs[r]).cursors :
         c.user_id \in Members(robjs[r])

\* the "operation" messages among msgs handed to user u whose callback ran
OperationEvents(msgs, u) ==
  {k \in SentTo(msgs, u, "operation") : msgs[k].outcome = "delivered"}

\* C27: every accepted operation advances the room's revision by exactly one
\* and every member's callback receives exactly one operation event, carrying
\* that new revision; no other step changes the revision or hands out an
\* operation event.  A member that stays from revision i to revision j
\* therefore receives the revisions i..j one by one, in increasing order and
\* with none missing.
C27_RevisionOrder ==
  [][LET before == robjs[1].ot_engine.revision
         after == robjs'[1].ot_engine.revision
     IN IF last'.kind = "handle_operation" /\ last'.arg = 0 /\ last' # last
        THEN /\ after = before + 1
             /\ Members(robjs'[1]) = Members(robjs[1])
             /\ \A m \in Members(robjs[1]) :
                  /\ Cardinality(SentTo(sent', m, "operation")) = 1
                  /\ \A k \in OperationEvents(sent', m) :
                       sent'[k].data.revision = before + 1
                  /\ Cardinality(OperationEvents(sent', m)) = 1
        ELSE /\ after = before
             /\ \A m \in Users : sent' # sent =>
                  SentTo(sent', m, "operation") = {}]_vars

\* the third operation, folded on its way, reached both members as revision 3
C27_Witness ==
  /\ last.kind = "handle_operation"
  /\ robjs[1].ot_engine.revision = MaxPayloads
  /\ Members(robjs[1]) = Users
  /\ \A m \in Users : \E k \in OperationEvents(sent, m) :
       /\ sent[k].data.revision = MaxPayloads
       /\ sent[k].data.value # last.op.value

\* positions of log written by a user other than user_id on op's path at a
\* revision above op's base revision
LaterWrites(log, op, user_id) ==
  {i \in 1..Len(log) : /\ log[i].revision > op.revision
                       /\ log[i].user_id # user_id
                       /\ log[i].path = op.path}

\* the value of the highest-revision later write, op's own value without one
ServerValue(log, op, user_id) ==
  LET writes == LaterWrites(log, op, user_id)
  IN IF writes = {} THEN op.value
     ELSE log[CHOOSE i \in writes :
                \A j \in writes : log[j].revision <= log[i].revision].value

\* C28: an operation submitted through handle_operation whose path a different
\* user wrote at a revision above its base revision is accepted and broadcast
\* with the value of the highest-revision such write; every other operation
\* is accepted and broadcast with its own payload value.
C28_ServerValue ==
  [][(last'.kind = "handle_operation" /\ last'.arg = 0 /\ last' # last) =>
       LET expected == ServerValue(Log(robjs, 1), last'.op, last'.user)
       IN /\ robjs'[1].ot_engine.objs[last'.res].value = expected
          /\ \A k \in 1..Len(sent') : sent'[k].data.value = expected]_vars

\* no handler is inside apply_operation
Quiescent == \A u \in Users : callers[u].pc \in {"idle", "done"}

\* C29: with two handlers' apply_operation calls interleaved statement by
\* statement, once both calls have returned the logged operations have
\* pairwise distinct revisions, the revision counter equals the number of log
\* entries, and the log is in increasing revision order.
C29_InterleavedLog ==
  Quiescent =>
    LET eng == robjs[1].ot_engine
        log == Log(robjs, 1)
    IN /\ eng.revision = Len(log)
       /\ \A i, j \in 1..Len(log) : i < j => log[i].revision < log[j].revision
       /\ \A i, j \in 1..Len(eng.operations) :
            i # j => eng.operations[i] # eng.operations[j]

====
